---- MODULE Spec2Model ----
(***************************************************************************)
(* A model of the order lifecycle of the QR menu application (nza3.py):    *)
(* the Firestore documents of a store (orders, menu items, daily sales     *)
(* aggregates), the counter-dashboard handlers that move an order from     *)
(* pending to preparing to completed, and the helper functions they call.  *)
(*                                                                         *)
(* Strings are sequences of one-character strings, so that str(), int(),   *)
(* strip(), split() and join() are computed and not assumed.  A Firestore  *)
(* collection is a function whose DOMAIN is the set of documents that      *)
(* exist; a document is a function from its field names to their values,   *)
(* so that a field that was never written is absent from the DOMAIN.       *)
(***************************************************************************)
EXTENDS Integers, Sequences, FiniteSets, TLC

\* ------------------------------------------------------------------ bounds
\* Number of persistence failures (a Firestore call that raises) in one run.
MaxFailures == 1
\* compute_adjusted_total called directly: the largest original total, the
\* longest list of unavailable pairs to start from, the largest quantity.
MaxTotal == 6
MaxPairs == 2
MaxQty == 2
\* add_to_daily_sales called directly: the number of calls in one run.
MaxSalesCalls == 3
\* The order functions called directly: the number of order documents there
\* are at one time.
MaxLiveOrders == 2

\* ------------------------------------------------------- Python primitives
Digits == <<"0", "1", "2", "3", "4", "5", "6", "7", "8", "9">>

\* The ten Myanmar digits, written m0 .. m9.
MyanmarDigits == <<"m0", "m1", "m2", "m3", "m4", "m5", "m6", "m7", "m8", "m9">>

Range(f) == {f[i] : i \in DOMAIN f}

\* The characters str.isdigit accepts and int() rejects: the superscript
\* two, written s2, stands for them.
SuperscriptDigits == <<"s2">>

\* str.isdigit of one character: true of the ASCII, of the Myanmar and of the
\* superscript digits.
IsDigit(c) ==
    c \in Range(Digits) \cup Range(MyanmarDigits) \cup Range(SuperscriptDigits)

\* The digits int() reads.
IsDecimal(c) == c \in Range(Digits) \cup Range(MyanmarDigits)

\* The value int() gives a decimal digit of either script.
DigitVal(c) ==
    IF c \in Range(Digits)
    THEN (CHOOSE i \in 1..10 : Digits[i] = c) - 1
    ELSE (CHOOSE i \in 1..10 : MyanmarDigits[i] = c) - 1

\* int(s) raises ValueError unless s is a non-empty string of decimal digits,
\* with or without a minus sign before them.
AllDigits(s) == Len(s) > 0 /\ \A i \in 1..Len(s) : IsDecimal(s[i])

PyIntOk(s) == AllDigits(s) \/ (Len(s) > 1 /\ s[1] = "-" /\ AllDigits(Tail(s)))

RECURSIVE PyNat(_)
PyNat(s) ==
    IF Len(s) = 0 THEN 0
    ELSE 10 * PyNat(SubSeq(s, 1, Len(s) - 1)) + DigitVal(s[Len(s)])

PyInt(s) == IF Len(s) > 0 /\ s[1] = "-" THEN 0 - PyNat(Tail(s)) ELSE PyNat(s)

\* str(n) of an integer.
RECURSIVE PyStr(_)
PyStr(n) ==
    IF n < 0 THEN <<"-">> \o PyStr(0 - n)
    ELSE IF n < 10 THEN <<Digits[n + 1]>>
    ELSE PyStr(n \div 10) \o <<Digits[(n % 10) + 1]>>

\* Python's truth value of a string: the empty string is false.
Truthy(s) == Len(s) > 0

RECURSIVE LStrip(_)
LStrip(s) == IF Len(s) > 0 /\ s[1] = " " THEN LStrip(Tail(s)) ELSE s

RECURSIVE RStrip(_)
RStrip(s) ==
    IF Len(s) > 0 /\ s[Len(s)] = " " THEN RStrip(SubSeq(s, 1, Len(s) - 1)) ELSE s

\* str.strip()
Strip(s) == RStrip(LStrip(s))

\* Whether sub occurs in s at position i.
OccursAt(s, sub, i) ==
    /\ i >= 1
    /\ i + Len(sub) - 1 <= Len(s)
    /\ SubSeq(s, i, i + Len(sub) - 1) = sub

\* sub in s
Contains(s, sub) == \E i \in 1..Len(s) : OccursAt(s, sub, i)

\* The start of the rightmost occurrence of sub in s (0: none).
RFind(s, sub) ==
    IF Contains(s, sub)
    THEN CHOOSE i \in 1..Len(s) :
            OccursAt(s, sub, i) /\ \A j \in (i + 1)..Len(s) : ~OccursAt(s, sub, j)
    ELSE 0

\* s.rsplit(sub, 1): the text before and after the rightmost occurrence.
RSplit1(s, sub) ==
    LET i == RFind(s, sub)
    IN  IF i = 0 THEN <<s>>
        ELSE <<SubSeq(s, 1, i - 1), SubSeq(s, i + Len(sub), Len(s))>>

\* s.split(c) on a one-character separator: the parts, in order.
RECURSIVE Split(_, _)
Split(s, c) ==
    IF \A i \in 1..Len(s) : s[i] # c THEN <<s>>
    ELSE LET i == CHOOSE k \in 1..Len(s) : s[k] = c /\ \A j \in 1..(k - 1) : s[j] # c
         IN  <<SubSeq(s, 1, i - 1)>> \o Split(SubSeq(s, i + 1, Len(s)), c)

\* sep.join(parts)
RECURSIVE Join(_, _)
Join(parts, sep) ==
    IF Len(parts) = 0 THEN <<>>
    ELSE IF Len(parts) = 1 THEN parts[1]
    ELSE parts[1] \o sep \o Join(Tail(parts), sep)

\* The characters of s that satisfy str.isdigit, in order.
RECURSIVE DigitsOf(_)
DigitsOf(s) ==
    IF Len(s) = 0 THEN <<>>
    ELSE (IF IsDigit(s[1]) THEN <<s[1]>> ELSE <<>>) \o DigitsOf(Tail(s))

\* ---------------------------------------------------------- pure functions
\* parse_price: Myanmar digits become ASCII digits, every other non-digit is
\* dropped, the rest is read as a number; 0 when int() raises.
Transliterate(s) ==
    [i \in 1..Len(s) |->
        IF s[i] \in Range(MyanmarDigits) THEN Digits[DigitVal(s[i]) + 1] ELSE s[i]]

\* parse_price without its replace loop and with str.isdigit true of the
\* ASCII digits only.
parse_price_ascii_only(price_str) ==
    LET result == SelectSeq(price_str, LAMBDA c : c \in Range(Digits))
    IN  IF AllDigits(result) THEN PyNat(result) ELSE 0

parse_price(price_str) ==
    LET result == DigitsOf(Transliterate(price_str))
    IN  IF AllDigits(result) THEN PyNat(result) ELSE 0

\* One entry of parse_order_items: (display_text, item_name, qty).
ParsePart(part) ==
    IF Contains(part, <<" ", "x">>) /\ IsDigit(RStrip(part)[Len(RStrip(part))])
    THEN LET halves == RSplit1(part, <<" ", "x">>)
             digits == DigitsOf(Strip(halves[2]))
         IN  [text |-> part,
              name |-> Strip(halves[1]),
              qty  |-> IF Len(digits) = 0 \/ ~AllDigits(digits) THEN 1
                       ELSE PyNat(digits)]
    ELSE [text |-> part, name |-> part, qty |-> 1]

RECURSIVE ParseParts(_)
ParseParts(parts) ==
    IF Len(parts) = 0 THEN <<>>
    ELSE LET part == Strip(parts[1])
         IN  (IF Len(part) = 0 THEN <<>> ELSE <<ParsePart(part)>>)
                \o ParseParts(Tail(parts))

parse_order_items(items_str) ==
    IF Len(Strip(items_str)) = 0 THEN <<>>
    ELSE ParseParts(Split(items_str, "|"))

\* name_to_price[...] in place of name_to_price.get(..., 0), with the
\* KeyError caught and the first price of the menu taken.
NameToPriceOrFirst(menu_items, name) ==
    LET hits == {i \in 1..Len(menu_items) :
                    /\ Len(Strip(menu_items[i].name)) > 0
                    /\ Strip(menu_items[i].name) = Strip(name)}
    IN  IF hits = {}
        THEN (IF Len(menu_items) = 0 THEN 0 ELSE parse_price(menu_items[1].price))
        ELSE parse_price(menu_items[CHOOSE i \in hits : \A j \in hits : j <= i].price)

\* compute_adjusted_total: menu_items is the list load_menu_items returned,
\* unavailable the list of (item_name, qty) pairs.  A later menu entry of the
\* same name replaces an earlier one in name_to_price.
NameToPrice(menu_items, name) ==
    LET hits == {i \in 1..Len(menu_items) :
                    /\ Len(Strip(menu_items[i].name)) > 0
                    /\ Strip(menu_items[i].name) = Strip(name)}
    IN  IF hits = {} THEN 0
        ELSE parse_price(menu_items[CHOOSE i \in hits : \A j \in hits : j <= i].price)

\* The subtract loop with = in place of +=: the last pair only.
SubtractLastOnly(menu_items, unavailable) ==
    IF Len(unavailable) = 0 THEN 0
    ELSE NameToPrice(menu_items, unavailable[Len(unavailable)].name)
            * unavailable[Len(unavailable)].qty

RECURSIVE Subtract(_, _)
Subtract(menu_items, unavailable) ==
    IF Len(unavailable) = 0 THEN 0
    ELSE NameToPrice(menu_items, unavailable[1].name) * unavailable[1].qty
            + Subtract(menu_items, Tail(unavailable))

Max(a, b) == IF a >= b THEN a ELSE b

\* compute_adjusted_total without its max(0, ...).
compute_adjusted_total_unclamped(order_total_int, menu_items, unavailable) ==
    LET subtract == Subtract(menu_items, unavailable)
    IN  [adjusted |-> order_total_int - subtract, subtracted |-> subtract]

compute_adjusted_total(order_total_int, menu_items, unavailable) ==
    LET subtract == Subtract(menu_items, unavailable)
    IN  [adjusted |-> Max(0, order_total_int - subtract), subtracted |-> subtract]

\* ------------------------------------------------------------------- data
Stores == {"cafe1"}
OrderIds == {1}
MenuIds == {1}
Sessions == {"a", "b"}

\* str.strip() of the names and prices the admin form saves.
Tea == <<"T">>
Latte == <<"L">>

\* The menu the store starts with: Tea at 2 (in a Myanmar digit).
InitialMenu == [k \in Stores \X MenuIds |-> [name |-> Tea, price |-> <<"m2">>]]

\* What the admin types into the edit form of a menu item.
EditedNames == {Tea}
EditedPrices == {<<"9">>}

\* The carts customers submit: each entry holds the name and the price text
\* of the menu item as it was when it was added, and a quantity.  The entries
\* of a cart may bear the same name: the menu form checks no name against
\* the others, and the cart tells its entries apart by item id.  An entry
\* may be of an item that has left the menu since (Latte, the second Tea).
Carts ==
    { <<[name |-> Tea, price |-> <<"m2">>, qty |-> 1],
        [name |-> Tea, price |-> <<"m2">>, qty |-> 2]>>,
      <<[name |-> Tea, price |-> <<"m2">>, qty |-> 1],
        [name |-> Latte, price |-> <<"3">>, qty |-> 1]>> }

\* The cart total of the customer page.
RECURSIVE CartTotal(_)
CartTotal(cart) ==
    IF Len(cart) = 0 THEN 0
    ELSE parse_price(cart[1].price) * cart[1].qty + CartTotal(Tail(cart))

\* The items string of the order-submit handler.
ItemsString(cart) ==
    Join([i \in 1..Len(cart) |-> cart[i].name \o <<" ", "x">> \o PyStr(cart[i].qty)],
         <<" ", "|", " ">>)

\* ------------------------------------------------------------------ state
VARIABLES
    stores,      \* the store documents that exist
    menu,        \* menu_items documents, keyed by <<store, item id>>
    orders,      \* order documents, keyed by <<store, order id>>
    daily,       \* daily_sales documents, keyed by <<store, day>>
    today,       \* the calendar date datetime.now() gives
    pc,          \* where each dashboard session is in its script run
    order,       \* the order dict of load_orders a session's handler acts on
    menu_items,  \* the list load_menu_items gave that script run
    checked,     \* the (item_name, qty) pairs of the boxes checked
    sales_doc,   \* what doc_ref.get() returned inside add_to_daily_sales
    wrote,       \* history: the running handler has changed the database
    booked,      \* history: add_to_daily_sales calls that returned, per order
    failures,    \* persistence failures so far
    args,        \* the arguments of the function called outside a dashboard run
    returned,    \* what that call returned
    ledger,      \* history: the add_to_daily_sales calls made, per store and day
    written,     \* history: the fields last written to each order, per call
    categories,  \* category documents, keyed by <<store, document id>>
    cat_names,   \* the names of the list load_categories gave a script run
    cleanup_done_today, \* st.session_state.cleanup_done_today of each session
    session_cart \* st.session_state.cart of the customer's session

db == <<stores, menu, orders, daily>>
locals == <<pc, order, menu_items, checked, sales_doc, wrote>>
calls == <<args, returned, ledger, written>>
pages == <<categories, cat_names, cleanup_done_today, session_cart>>
vars == <<stores, menu, orders, daily, today, pc, order, menu_items, checked,
          sales_doc, wrote, booked, failures, args, returned, ledger, written,
          categories, cat_names, cleanup_done_today, session_cart>>

\* ------------------------------------------------------------- Firestore
\* DocumentReference.update: the fields given replace or extend the document.
Update(doc, upd) ==
    [f \in DOMAIN doc \cup DOMAIN upd |-> IF f \in DOMAIN upd THEN upd[f] ELSE doc[f]]

\* A collection with document k set to doc.
Put(coll, k, doc) ==
    [x \in DOMAIN coll \cup {k} |-> IF x = k THEN doc ELSE coll[x]]

\* A collection without the documents keys.
Without(coll, keys) == [x \in DOMAIN coll \ keys |-> coll[x]]

\* optional arguments: None, or a value
None == {}
Some(v) == {v}
TheValue(opt) == CHOOSE v \in opt : TRUE

NoOrder == [order_id |-> 0]
NoSalesDoc == [exists |-> FALSE]

\* The store whose counter dashboard a session shows.
StoreOf(s) == "cafe1"

\* The elements of a finite set of numbers as a list, ascending.
RECURSIVE SortedSeq(_)
SortedSeq(S) ==
    IF S = {} THEN <<>>
    ELSE LET m == CHOOSE x \in S : \A y \in S : x <= y
         IN  <<m>> \o SortedSeq(S \ {m})

\* load_menu_items: the menu item dicts of the store, in document order.
load_menu_items(store_id) ==
    LET ids == SortedSeq({k[2] : k \in {x \in DOMAIN menu : x[1] = store_id}})
    IN  [i \in 1..Len(ids) |-> menu[<<store_id, ids[i]>>]]

\* load_orders: the order dicts of the store, each with its order_id.
load_orders(store_id) ==
    {Update(orders[k], [order_id |-> k[2]]) :
        k \in {x \in DOMAIN orders : x[1] = store_id}}

\* ------------------------------------------------------ order functions
\* get_order_doc that finds the order under the identifier in any store.
get_order_doc_any_store(coll, store_id, order_id) ==
    IF \E k \in DOMAIN coll : k[2] = order_id
    THEN Some(coll[CHOOSE k \in DOMAIN coll : k[2] = order_id])
    ELSE None

\* get_order_doc: the fields of the order document, None when there is none.
get_order_doc(coll, store_id, order_id) ==
    IF <<store_id, order_id>> \in DOMAIN coll
    THEN Some(coll[<<store_id, order_id>>]) ELSE None

\* get_order_status: its status, None when there is no document.
get_order_status(coll, store_id, order_id) ==
    IF <<store_id, order_id>> \in DOMAIN coll
    THEN Some(coll[<<store_id, order_id>>].status) ELSE None

\* save_order whose set() merges into the document there is.
save_order_merge(coll, store_id, order_id, order_data, now) ==
    Put(coll, <<store_id, order_id>>,
        Update(IF <<store_id, order_id>> \in DOMAIN coll
               THEN coll[<<store_id, order_id>>] ELSE <<>>,
               [table_no  |-> order_data.table_no,
                items     |-> order_data.items,
                total     |-> order_data.total,
                status    |-> "pending",
                timestamp |-> now]))

\* save_order: set() of a new pending order document.
save_order(coll, store_id, order_id, order_data, now) ==
    Put(coll, <<store_id, order_id>>,
        [table_no  |-> order_data.table_no,
         items     |-> order_data.items,
         total     |-> order_data.total,
         status    |-> "pending",
         timestamp |-> now])

update_order_status_completed(coll, store_id, order_id, new_status) ==
    Put(coll, <<store_id, order_id>>,
        Update(coll[<<store_id, order_id>>], [status |-> "completed"]))

\* update_order_status: update() of the status field.
update_order_status(coll, store_id, order_id, new_status) ==
    Put(coll, <<store_id, order_id>>,
        Update(coll[<<store_id, order_id>>], [status |-> new_status]))

\* update_order_unavailable: update() of unavailable_items and, when an
\* adjusted_total is given, of adjusted_total as str(int(adjusted_total)).
update_order_unavailable(coll, store_id, order_id, unavailable_items_str, adjusted_total) ==
    LET upd == IF adjusted_total # None
               THEN [unavailable_items |-> Strip(unavailable_items_str),
                     adjusted_total    |-> PyStr(TheValue(adjusted_total))]
               ELSE [unavailable_items |-> Strip(unavailable_items_str)]
    IN  Put(coll, <<store_id, order_id>>, Update(coll[<<store_id, order_id>>], upd))

\* add_to_daily_sales that sets the aggregate whether or not one exists.
add_to_daily_sales_set(coll, store_id, doc, amount) ==
    Put(coll, <<store_id, doc.day>>,
        [total |-> amount, order_count |-> 1, date |-> doc.day])

\* The write of add_to_daily_sales, given what its doc_ref.get() returned:
\* update() with the values computed from that read, or set() of a new
\* aggregate.
add_to_daily_sales(coll, store_id, doc, amount) ==
    IF doc.exists
    THEN Put(coll, <<store_id, doc.day>>,
             Update(coll[<<store_id, doc.day>>],
                    [total       |-> doc.total + amount,
                     order_count |-> doc.order_count + 1]))
    ELSE Put(coll, <<store_id, doc.day>>,
             [total |-> amount, order_count |-> 1, date |-> doc.day])

\* delete_store: the documents of the subcollections it names, then the store.
DeletedSubcollections == {"categories", "menu_items", "orders"}

delete_store(store_id) ==
    /\ stores' = stores \ {store_id}
    /\ menu' = IF "menu_items" \in DeletedSubcollections
               THEN Without(menu, {k \in DOMAIN menu : k[1] = store_id}) ELSE menu
    /\ orders' = IF "orders" \in DeletedSubcollections
                 THEN Without(orders, {k \in DOMAIN orders : k[1] = store_id}) ELSE orders
    /\ daily' = IF "daily_sales" \in DeletedSubcollections
                THEN Without(daily, {k \in DOMAIN daily : k[1] = store_id}) ELSE daily

\* ------------------------------------------------- dashboard computations
\* The (item_name, qty) pairs of the checked boxes, in the order of the rows.
RECURSIVE CheckedPairs(_, _, _)
CheckedPairs(parsed, boxes, idx) ==
    IF idx > Len(parsed) THEN <<>>
    ELSE (IF idx \in boxes
          THEN <<[name |-> parsed[idx].name, qty |-> parsed[idx].qty]>> ELSE <<>>)
            \o CheckedPairs(parsed, boxes, idx + 1)

\* unav_names of the Preparing handler.
UnavNames(pairs) == Join([i \in 1..Len(pairs) |-> pairs[i].name], <<",", " ">>)

\* orig_total of the Preparing handler: int(order['total']), 0 when it raises.
OrigTotal(o) == IF PyIntOk(o.total) THEN PyInt(o.total) ELSE 0

\* order.get('adjusted_total') or order['total'], the text the dashboard reads
\* the amount of an order from.
EffectiveTotalText(o) ==
    IF "adjusted_total" \in DOMAIN o /\ Truthy(o.adjusted_total)
    THEN o.adjusted_total ELSE o.total

\* unav_set of the dashboard: the names in a stored unavailable_items.
UnavSet(o) ==
    LET unav_str == IF "unavailable_items" \in DOMAIN o THEN Strip(o.unavailable_items) ELSE <<>>
        parts == Split(unav_str, ",")
    IN  {Strip(parts[i]) : i \in {j \in 1..Len(parts) : Len(Strip(parts[j])) > 0}}

\* ------------------------------------------------------------------- Init
\* One store with its menu, no order yet, no sales yet, both dashboards idle.
\* No category yet, no session has loaded the categories or run the cleanup,
\* the cart is empty.
InitPages ==
    /\ categories = <<>>
    /\ cat_names = [s \in Sessions |-> {}]
    /\ cleanup_done_today = [s \in Sessions |-> None]
    /\ session_cart = <<>>

Init ==
    /\ stores = Stores
    /\ menu = InitialMenu
    /\ orders = <<>>
    /\ daily = <<>>
    /\ today = 1
    /\ pc = [s \in Sessions |-> "idle"]
    /\ order = [s \in Sessions |-> NoOrder]
    /\ menu_items = [s \in Sessions |-> <<>>]
    /\ checked = [s \in Sessions |-> <<>>]
    /\ sales_doc = [s \in Sessions |-> NoSalesDoc]
    /\ wrote = [s \in Sessions |-> FALSE]
    /\ booked = [k \in Stores \X OrderIds |-> 0]
    /\ failures = 0
    /\ args = None
    /\ returned = None
    /\ ledger = <<>>
    /\ written = <<>>
    /\ InitPages

\* ---------------------------------------------------------------- customer
\* The order-submit handler: the items string and the total of the cart go to
\* save_order under a new identifier.
SubmitOrder(store_id, cart) ==
    /\ store_id \in stores
    /\ \E order_id \in OrderIds :
        /\ <<store_id, order_id>> \notin DOMAIN orders
        /\ \A other \in OrderIds :
              <<store_id, other>> \notin DOMAIN orders => order_id <= other
        /\ orders' = save_order(orders, store_id, order_id,
                                [table_no |-> <<"5">>,
                                 items    |-> ItemsString(cart),
                                 total    |-> PyStr(CartTotal(cart))],
                                today)
    /\ UNCHANGED <<stores, menu, daily, today, locals, booked, failures>>
    /\ UNCHANGED calls
    /\ UNCHANGED pages

\* ------------------------------------------------------------ store admin
\* The edit form of a menu item: update_menu_item with the name and price typed.
UpdateMenuItem(store_id, item_id, name, price) ==
    /\ store_id \in stores
    /\ <<store_id, item_id>> \in DOMAIN menu
    /\ menu' = Put(menu, <<store_id, item_id>>,
                   Update(menu[<<store_id, item_id>>],
                          [name |-> Strip(name), price |-> Strip(price)]))
    /\ UNCHANGED <<stores, orders, daily, today, locals, booked, failures>>
    /\ UNCHANGED calls
    /\ UNCHANGED pages

\* The super admin confirms the deletion of a store.
DeleteStore(store_id) ==
    /\ store_id \in stores
    /\ delete_store(store_id)
    /\ UNCHANGED <<today, locals, booked, failures>>
    /\ UNCHANGED calls
    /\ UNCHANGED pages

\* ------------------------------------------------------ counter dashboard
\* A script run of the dashboard in which the Preparing button of an order is
\* found pressed: the order list and the menu are loaded, the boxes read.
ClickPreparing(s, order_id, boxes) ==
    /\ pc[s] = "idle"
    /\ StoreOf(s) \in stores
    /\ \E o \in load_orders(StoreOf(s)) :
        /\ o.order_id = order_id
        /\ o.status = "pending"
        /\ boxes \subseteq 1..Len(parse_order_items(o.items))
        /\ order' = [order EXCEPT ![s] = o]
        /\ checked' = [checked EXCEPT ![s] = CheckedPairs(parse_order_items(o.items), boxes, 1)]
    /\ menu_items' = [menu_items EXCEPT ![s] = load_menu_items(StoreOf(s))]
    /\ pc' = [pc EXCEPT ![s] = "prep_unavailable"]
    /\ wrote' = [wrote EXCEPT ![s] = FALSE]
    /\ UNCHANGED <<db, today, sales_doc, booked, failures>>
    /\ UNCHANGED calls
    /\ UNCHANGED pages

\* The handler ends, with st.rerun() after its last call or with the exception
\* shown: the next script run starts from the session's idle state.
Finish(s) ==
    /\ pc' = [pc EXCEPT ![s] = "idle"]
    /\ wrote' = [wrote EXCEPT ![s] = FALSE]
    /\ order' = [order EXCEPT ![s] = NoOrder]
    /\ menu_items' = [menu_items EXCEPT ![s] = <<>>]
    /\ checked' = [checked EXCEPT ![s] = <<>>]
    /\ sales_doc' = [sales_doc EXCEPT ![s] = NoSalesDoc]

\* Preparing handler, first call: update_order_unavailable with the names
\* checked and the adjusted total computed from the loaded order and menu.
PrepUnavailable(s) ==
    LET k == <<StoreOf(s), order[s].order_id>>
        adjusted == compute_adjusted_total(OrigTotal(order[s]), menu_items[s], checked[s]).adjusted
    IN  /\ pc[s] = "prep_unavailable"
        /\ k \in DOMAIN orders
        /\ orders' = update_order_unavailable(orders, k[1], k[2], UnavNames(checked[s]),
                                              Some(adjusted))
        /\ pc' = [pc EXCEPT ![s] = "prep_status"]
        /\ wrote' = [wrote EXCEPT ![s] = TRUE]
        /\ menu_items' = [menu_items EXCEPT ![s] = <<>>]
        /\ checked' = [checked EXCEPT ![s] = <<>>]
        /\ UNCHANGED <<stores, menu, daily, today, order, sales_doc,
                       booked, failures>>
        /\ UNCHANGED calls
        /\ UNCHANGED pages

\* update() raises: NotFound when the document is gone, or the service fails.
\* Nothing catches it in the Preparing handler.
PrepUnavailableRaises(s) ==
    LET k == <<StoreOf(s), order[s].order_id>>
    IN  /\ pc[s] = "prep_unavailable"
        /\ k \notin DOMAIN orders \/ failures < MaxFailures
        /\ failures' = IF k \in DOMAIN orders THEN failures + 1 ELSE failures
        /\ Finish(s)
        /\ UNCHANGED <<db, today, booked>>
        /\ UNCHANGED calls
        /\ UNCHANGED pages

\* Preparing handler, second call: update_order_status(..., 'preparing').
PrepStatus(s) ==
    LET k == <<StoreOf(s), order[s].order_id>>
    IN  /\ pc[s] = "prep_status"
        /\ k \in DOMAIN orders
        /\ orders' = update_order_status(orders, k[1], k[2], "preparing")
        /\ Finish(s)
        /\ UNCHANGED <<stores, menu, daily, today, booked, failures>>
        /\ UNCHANGED calls
        /\ UNCHANGED pages

PrepStatusRaises(s) ==
    LET k == <<StoreOf(s), order[s].order_id>>
    IN  /\ pc[s] = "prep_status"
        /\ k \notin DOMAIN orders \/ failures < MaxFailures
        /\ failures' = IF k \in DOMAIN orders THEN failures + 1 ELSE failures
        /\ Finish(s)
        /\ UNCHANGED <<db, today, booked>>
        /\ UNCHANGED calls
        /\ UNCHANGED pages

\* A script run of the dashboard in which the Complete button of an order is
\* found pressed.  The button is drawn for every pending or preparing order
\* of the list loaded.
ClickComplete(s, order_id) ==
    /\ pc[s] = "idle"
    /\ StoreOf(s) \in stores
    /\ \E o \in load_orders(StoreOf(s)) :
        /\ o.order_id = order_id
        /\ o.status \in {"pending", "preparing"}
        /\ order' = [order EXCEPT ![s] = o]
    /\ pc' = [pc EXCEPT ![s] = "done_sales_get"]
    /\ wrote' = [wrote EXCEPT ![s] = FALSE]
    /\ UNCHANGED <<db, today, menu_items, checked, sales_doc, booked, failures>>
    /\ UNCHANGED calls
    /\ UNCHANGED pages

\* order_total of the Complete handler.
OrderTotal(o) == PyInt(EffectiveTotalText(o))

\* Complete handler inside its try: order_total is computed (an int() that
\* raises skips the booking) and add_to_daily_sales reads today's aggregate.
DoneSalesGet(s) ==
    LET k == <<StoreOf(s), today>>
    IN  /\ pc[s] = "done_sales_get"
        /\ IF PyIntOk(EffectiveTotalText(order[s]))
           THEN /\ pc' = [pc EXCEPT ![s] = "done_sales_write"]
                /\ sales_doc' = [sales_doc EXCEPT ![s] =
                        IF k \in DOMAIN daily
                        THEN [exists |-> TRUE, day |-> today,
                              total |-> daily[k].total,
                              order_count |-> daily[k].order_count]
                        ELSE [exists |-> FALSE, day |-> today]]
           ELSE /\ pc' = [pc EXCEPT ![s] = "done_status"]
                /\ UNCHANGED sales_doc
        /\ UNCHANGED <<db, today, order, menu_items, checked, wrote,
                       booked, failures>>
        /\ UNCHANGED calls
        /\ UNCHANGED pages

\* get() raises: the bare except of the handler swallows it.
DoneSalesGetRaises(s) ==
    /\ pc[s] = "done_sales_get"
    /\ failures < MaxFailures
    /\ failures' = failures + 1
    /\ pc' = [pc EXCEPT ![s] = "done_status"]
    /\ UNCHANGED <<db, today, order, menu_items, checked, sales_doc, wrote,
                   booked>>
    /\ UNCHANGED calls
    /\ UNCHANGED pages

\* add_to_daily_sales writes the aggregate and returns.
DoneSalesWrite(s) ==
    LET k == <<StoreOf(s), sales_doc[s].day>>
        o == <<StoreOf(s), order[s].order_id>>
        amount == OrderTotal(order[s])
    IN  /\ pc[s] = "done_sales_write"
        /\ sales_doc[s].exists => k \in DOMAIN daily
        /\ daily' = add_to_daily_sales(daily, StoreOf(s), sales_doc[s], amount)
        /\ booked' = [booked EXCEPT ![o] = @ + 1]
        /\ wrote' = [wrote EXCEPT ![s] = TRUE]
        /\ pc' = [pc EXCEPT ![s] = "done_status"]
        /\ sales_doc' = [sales_doc EXCEPT ![s] = NoSalesDoc]
        /\ UNCHANGED <<stores, menu, orders, today, order, menu_items, checked, failures>>
        /\ UNCHANGED calls
        /\ UNCHANGED pages

\* update() or set() raises: swallowed as well.
DoneSalesWriteRaises(s) ==
    LET k == <<StoreOf(s), sales_doc[s].day>>
    IN  /\ pc[s] = "done_sales_write"
        /\ (sales_doc[s].exists /\ k \notin DOMAIN daily) \/ failures < MaxFailures
        /\ failures' = IF sales_doc[s].exists /\ k \notin DOMAIN daily
                       THEN failures ELSE failures + 1
        /\ pc' = [pc EXCEPT ![s] = "done_status"]
        /\ sales_doc' = [sales_doc EXCEPT ![s] = NoSalesDoc]
        /\ UNCHANGED <<db, today, order, menu_items, checked, wrote,
                       booked>>
        /\ UNCHANGED calls
        /\ UNCHANGED pages

\* Complete handler after the try: update_order_status(..., 'completed').
DoneStatus(s) ==
    LET k == <<StoreOf(s), order[s].order_id>>
    IN  /\ pc[s] = "done_status"
        /\ k \in DOMAIN orders
        /\ orders' = update_order_status(orders, k[1], k[2], "completed")
        /\ Finish(s)
        /\ UNCHANGED <<stores, menu, daily, today, booked, failures>>
        /\ UNCHANGED calls
        /\ UNCHANGED pages

DoneStatusRaises(s) ==
    LET k == <<StoreOf(s), order[s].order_id>>
    IN  /\ pc[s] = "done_status"
        /\ k \notin DOMAIN orders \/ failures < MaxFailures
        /\ failures' = IF k \in DOMAIN orders THEN failures + 1 ELSE failures
        /\ Finish(s)
        /\ UNCHANGED <<db, today, booked>>
        /\ UNCHANGED calls
        /\ UNCHANGED pages

\* ------------------------------------------------------------ specification
Customer == \E store_id \in Stores, cart \in Carts : SubmitOrder(store_id, cart)

Admin ==
    \/ \E store_id \in Stores, item_id \in MenuIds, name \in EditedNames, price \in EditedPrices :
            UpdateMenuItem(store_id, item_id, name, price)

Dashboard(s) ==
    \/ \E order_id \in OrderIds, boxes \in SUBSET (1..2) : ClickPreparing(s, order_id, boxes)
    \/ PrepUnavailable(s)
    \/ PrepUnavailableRaises(s)
    \/ PrepStatus(s)
    \/ PrepStatusRaises(s)
    \/ \E order_id \in OrderIds : ClickComplete(s, order_id)
    \/ DoneSalesGet(s)
    \/ DoneSalesGetRaises(s)
    \/ DoneSalesWrite(s)
    \/ DoneSalesWriteRaises(s)
    \/ DoneStatus(s)
    \/ DoneStatusRaises(s)

Next == Customer \/ Admin \/ \E s \in Sessions : Dashboard(s)

Spec == Init /\ [][Next]_vars

\* The same with the super admin, who deletes stores.
SuperAdmin == \E store_id \in Stores : DeleteStore(store_id)

NextStore == Next \/ SuperAdmin

SpecStore == Init /\ [][NextStore]_vars

\* The dashboard sessions with the History clear.
\* The number of History clears in one run.
MaxClears == 1

\* A script run of the dashboard in which the History clear is found pressed
\* and confirmed: completed_orders are the completed orders of the list
\* loaded.
ClickHistoryClear(s) ==
    /\ pc[s] = "idle"
    /\ StoreOf(s) \in stores
    /\ Len(ledger) < MaxClears
    /\ \E o \in load_orders(StoreOf(s)) :
        /\ o.status = "completed"
        /\ order' = [order EXCEPT ![s] = o]
    /\ pc' = [pc EXCEPT ![s] = "clear_history"]
    /\ wrote' = [wrote EXCEPT ![s] = FALSE]
    /\ UNCHANGED <<db, today, menu_items, checked, sales_doc, booked, failures>>
    /\ UNCHANGED calls
    /\ UNCHANGED pages

\* delete_order of the order of completed_orders: delete() of the document,
\* whatever it holds by then.
HistoryDelete(s) ==
    /\ pc[s] = "clear_history"
    /\ orders' = Without(orders, {<<StoreOf(s), order[s].order_id>>})
    /\ ledger' = Append(ledger, <<StoreOf(s), order[s].order_id>>)
    /\ Finish(s)
    /\ UNCHANGED <<stores, menu, daily, today, booked, failures, args, returned, written>>
    /\ UNCHANGED pages

\* The order is submitted before the History clear, and the menu is left as
\* it is.
SubmitBeforeClear == Len(ledger) = 0 /\ Customer

NextHistory ==
    \/ SubmitBeforeClear
    \/ \E s \in Sessions : Dashboard(s)
    \/ \E s \in Sessions : ClickHistoryClear(s) \/ HistoryDelete(s)

SpecHistory == Init /\ [][NextHistory]_vars

\* ------------------------------------------- compute_adjusted_total alone
\* The menu lists compute_adjusted_total is given: none, one item, two items,
\* two items whose names are equal once stripped.
AdjustMenus ==
    { <<>>,
      <<[name |-> Tea, price |-> <<"m2">>]>>,
      <<[name |-> Tea, price |-> <<"m2">>], [name |-> Latte, price |-> <<"3">>]>>,
      <<[name |-> Tea, price |-> <<"9">>],
        [name |-> <<" ", "T">>, price |-> <<"1", " ", "K">>]>> }

\* The (item_name, qty) pairs the caller may pass.
AdjustPairs == [name : {Tea, Latte}, qty : 0..MaxQty]

SeqsUpTo(S, n) == UNION {[1..m -> S] : m \in 0..n}

InitAdjust ==
    /\ stores = Stores
    /\ menu = InitialMenu
    /\ orders = <<>>
    /\ daily = <<>>
    /\ today = 1
    /\ pc = [s \in Sessions |-> "idle"]
    /\ order = [s \in Sessions |-> NoOrder]
    /\ menu_items = [s \in Sessions |-> <<>>]
    /\ checked = [s \in Sessions |-> <<>>]
    /\ sales_doc = [s \in Sessions |-> NoSalesDoc]
    /\ wrote = [s \in Sessions |-> FALSE]
    /\ booked = [k \in Stores \X OrderIds |-> 0]
    /\ failures = 0
    /\ args \in [order_total_int : 0..MaxTotal,
                 menu_items      : AdjustMenus,
                 unavailable     : SeqsUpTo(AdjustPairs, MaxPairs)]
    /\ returned = None
    /\ ledger = <<>>
    /\ written = <<>>
    /\ InitPages

\* compute_adjusted_total is called on the arguments.
ComputeAdjusted ==
    /\ returned = None
    /\ returned' = Some(compute_adjusted_total(args.order_total_int, args.menu_items,
                                               args.unavailable))
    /\ UNCHANGED <<db, today, locals, booked, failures, args, ledger, written>>
    /\ UNCHANGED pages

\* It is called again with one more pair at the end of the unavailable list.
ComputeWithOneMore(pair) ==
    /\ returned # None
    /\ Len(args.unavailable) <= MaxPairs
    /\ args' = [args EXCEPT !.unavailable = Append(@, pair)]
    /\ returned' = Some(compute_adjusted_total(args.order_total_int, args.menu_items,
                                               Append(args.unavailable, pair)))
    /\ UNCHANGED <<db, today, locals, booked, failures, ledger, written>>
    /\ UNCHANGED pages

NextAdjust ==
    \/ ComputeAdjusted
    \/ \E pair \in AdjustPairs : ComputeWithOneMore(pair)

SpecAdjust == InitAdjust /\ [][NextAdjust]_vars

\* ------------------------------------------------ add_to_daily_sales alone
\* The stores and the days of the runs in which the functions of the
\* persistence layer are called one at a time.  A day is its number, counted
\* so that the cutoff of every day is a day too; the window
\* auto_cleanup_old_daily_sales keeps is RetentionDays.
RetentionDays == 400
OpsStores == {"cafe1", "cafe2"}
FirstDay == RetentionDays + 1
Days == {FirstDay, FirstDay + RetentionDays, FirstDay + RetentionDays + 1}

\* strftime("%Y-%m-%d"): a text of fixed width whose order is that of the days.
RECURSIVE ZeroPad(_, _)
ZeroPad(s, width) == IF Len(s) >= width THEN s ELSE ZeroPad(<<"0">> \o s, width)

DateStr(day) == ZeroPad(PyStr(day), 4)

\* strftime("%Y-%m-%d %H:%M:%S")
Timestamp(day) == DateStr(day) \o <<" ", "0", "9", ":", "0", "0">>

\* doc_ref.get() of add_to_daily_sales: the aggregate of the day, if any.
SalesDocRead(coll, store_id, day) ==
    IF <<store_id, day>> \in DOMAIN coll
    THEN [exists |-> TRUE, day |-> day,
          total |-> coll[<<store_id, day>>].total,
          order_count |-> coll[<<store_id, day>>].order_count]
    ELSE [exists |-> FALSE, day |-> day]

SalesAmounts == {0, 5, 6}

RECURSIVE SeqSum(_)
SeqSum(q) == IF Len(q) = 0 THEN 0 ELSE q[1] + SeqSum(Tail(q))

\* The number of calls the ledger holds.
RECURSIVE CallsIn(_, _)
CallsIn(led, keys) ==
    IF keys = {} THEN 0
    ELSE LET k == CHOOSE x \in keys : TRUE
         IN  Len(led[k]) + CallsIn(led, keys \ {k})

CallsMade == CallsIn(ledger, DOMAIN ledger)

InitSales ==
    /\ stores = OpsStores
    /\ menu = <<>>
    /\ orders = <<>>
    /\ daily = <<>>
    /\ today = FirstDay
    /\ pc = [s \in Sessions |-> "idle"]
    /\ order = [s \in Sessions |-> NoOrder]
    /\ menu_items = [s \in Sessions |-> <<>>]
    /\ checked = [s \in Sessions |-> <<>>]
    /\ sales_doc = [s \in Sessions |-> NoSalesDoc]
    /\ wrote = [s \in Sessions |-> FALSE]
    /\ booked = [k \in Stores \X OrderIds |-> 0]
    /\ failures = 0
    /\ args = None
    /\ returned = None
    /\ ledger = <<>>
    /\ written = <<>>
    /\ InitPages

\* One whole call of add_to_daily_sales(db, store_id, amount).
AddToDailySales(store_id, amount) ==
    LET day == DateStr(today)
        k == <<store_id, day>>
    IN  /\ CallsMade < MaxSalesCalls
        /\ daily' = add_to_daily_sales(daily, store_id,
                                       SalesDocRead(daily, store_id, day), amount)
        /\ ledger' = Put(ledger, k,
                         (IF k \in DOMAIN ledger THEN ledger[k] ELSE <<>>) \o <<amount>>)
        /\ args' = Some([store_id |-> store_id, amount |-> amount])
        /\ UNCHANGED <<stores, menu, orders, today, locals, booked, failures,
                       returned, written>>
        /\ UNCHANGED pages

\* The calendar date changes.
NextDay ==
    /\ \E day \in Days : day > today /\ today' = day
    /\ UNCHANGED <<db, locals, booked, failures, calls>>
    /\ UNCHANGED pages

NextSales ==
    \/ \E store_id \in OpsStores, amount \in SalesAmounts : AddToDailySales(store_id, amount)
    \/ NextDay

SpecSales == InitSales /\ [][NextSales]_vars

\* ------------------------------------------------ order functions alone
\* str(uuid.uuid4())[:8]: any token may come out, one in use included.
OrderTokens == {"a1b2c3d4", "e5f6a7b8"}

\* The order_data the submit handler passes: the client's total is taken as
\* it comes, whatever the menu prices are.
OrderDatas ==
    { [table_no |-> <<"5">>, items |-> <<"T", " ", "x", "1">>, total |-> <<"2">>],
      [table_no |-> <<"7">>, items |-> <<"T", " ", "x", "1">>, total |-> <<"9", "9", "9">>] }

InitOrders ==
    /\ stores = OpsStores
    /\ menu = <<>>
    /\ orders = <<>>
    /\ daily = add_to_daily_sales(<<>>, "cafe1", SalesDocRead(<<>>, "cafe1", DateStr(FirstDay)), 2)
    /\ today = FirstDay
    /\ pc = [s \in Sessions |-> "idle"]
    /\ order = [s \in Sessions |-> NoOrder]
    /\ menu_items = [s \in Sessions |-> <<>>]
    /\ checked = [s \in Sessions |-> <<>>]
    /\ sales_doc = [s \in Sessions |-> NoSalesDoc]
    /\ wrote = [s \in Sessions |-> FALSE]
    /\ booked = [k \in Stores \X OrderIds |-> 0]
    /\ failures = 0
    /\ args = None
    /\ returned = None
    /\ ledger = <<>>
    /\ written = <<>>
    /\ InitPages

\* save_order(db, store_id, order_data) draws the token order_id.
SaveOrder(store_id, order_id, order_data) ==
    /\ Cardinality(DOMAIN orders \cup {<<store_id, order_id>>}) <= MaxLiveOrders
    /\ orders' = save_order(orders, store_id, order_id, order_data, Timestamp(today))
    /\ returned' = Some([order_id |-> order_id])
    /\ written' = Put(written, <<store_id, order_id>>, [status |-> "pending"])
    /\ UNCHANGED <<stores, menu, daily, today, locals, booked, failures, args, ledger>>
    /\ UNCHANGED pages

\* update_order_status(db, store_id, order_id, new_status) on a document
\* that exists (update() of a missing document raises and writes nothing).
UpdateOrderStatus(store_id, order_id, new_status) ==
    LET k == <<store_id, order_id>>
    IN  /\ k \in DOMAIN orders
        /\ orders' = update_order_status(orders, store_id, order_id, new_status)
        /\ returned' = None
        /\ written' = Put(written, k, Update(written[k], [status |-> new_status]))
        /\ UNCHANGED <<stores, menu, daily, today, locals, booked, failures, args, ledger>>
        /\ UNCHANGED pages

\* update_order_unavailable(db, store_id, order_id, "T", 0)
UpdateOrderUnavailable(store_id, order_id) ==
    LET k == <<store_id, order_id>>
    IN  /\ k \in DOMAIN orders
        /\ orders' = update_order_unavailable(orders, store_id, order_id, Tea, Some(0))
        /\ returned' = None
        /\ written' = Put(written, k,
                          Update(written[k], [unavailable_items |-> Tea,
                                              adjusted_total    |-> <<"0">>]))
        /\ UNCHANGED <<stores, menu, daily, today, locals, booked, failures, args, ledger>>
        /\ UNCHANGED pages

\* delete_order(db, store_id, order_id)
DeleteOrder(store_id, order_id) ==
    LET k == <<store_id, order_id>>
    IN  /\ k \in DOMAIN orders
        /\ orders' = Without(orders, {k})
        /\ returned' = None
        /\ written' = Without(written, {k})
        /\ UNCHANGED <<stores, menu, daily, today, locals, booked, failures, args, ledger>>
        /\ UNCHANGED pages

\* get_order_doc(db, store_id, order_id), as the customer's tracking page
\* calls it.
GetOrderDoc(store_id, order_id) ==
    /\ returned' = Some([order_doc |-> get_order_doc(orders, store_id, order_id)])
    /\ UNCHANGED <<db, today, locals, booked, failures, args, ledger, written>>
    /\ UNCHANGED pages

\* get_order_status(db, store_id, order_id)
GetOrderStatus(store_id, order_id) ==
    /\ returned' = Some([status |-> get_order_status(orders, store_id, order_id)])
    /\ UNCHANGED <<db, today, locals, booked, failures, args, ledger, written>>
    /\ UNCHANGED pages

NextOrders ==
    \E store_id \in OpsStores, order_id \in OrderTokens :
        \/ \E order_data \in OrderDatas : SaveOrder(store_id, order_id, order_data)
        \/ \E new_status \in {"preparing", "completed"} :
                UpdateOrderStatus(store_id, order_id, new_status)
        \/ UpdateOrderUnavailable(store_id, order_id)
        \/ DeleteOrder(store_id, order_id)
        \/ GetOrderDoc(store_id, order_id)
        \/ GetOrderStatus(store_id, order_id)

SpecOrders == InitOrders /\ [][NextOrders]_vars

\* ------------------------------------------------ the cleanups alone
\* The day a date string names.
DayOf(date) == CHOOSE d \in Days : DateStr(d) = date

\* str.startswith
StartsWith(s, prefix) ==
    Len(s) >= Len(prefix) /\ SubSeq(s, 1, Len(prefix)) = prefix

\* a < b of two date strings, by characters as Python compares str.
RECURSIVE StrLess(_, _)
StrLess(a, b) ==
    IF Len(b) = 0 THEN FALSE
    ELSE IF Len(a) = 0 THEN TRUE
    ELSE IF a[1] = b[1] THEN StrLess(Tail(a), Tail(b))
    ELSE DigitVal(a[1]) < DigitVal(b[1])

\* order_data.get('timestamp', '')
TimestampOf(doc) == IF "timestamp" \in DOMAIN doc THEN doc.timestamp ELSE <<>>

CompletedOrAnyStatus(coll, store_id, today_str) ==
    { k \in DOMAIN coll :
        /\ k[1] = store_id
        /\ Len(TimestampOf(coll[k])) > 0
        /\ ~StartsWith(TimestampOf(coll[k]), today_str) }

\* The orders auto_cleanup_completed_orders deletes: of the documents
\* where('status', '==', 'completed') streams, those whose timestamp is not
\* empty and does not start with today's date.
CompletedBeforeToday(coll, store_id, today_str) ==
    { k \in DOMAIN coll :
        /\ k[1] = store_id
        /\ "status" \in DOMAIN coll[k]
        /\ coll[k].status = "completed"
        /\ Len(TimestampOf(coll[k])) > 0
        /\ ~StartsWith(TimestampOf(coll[k]), today_str) }

auto_cleanup_completed_orders_first_only(coll, store_id, today_str) ==
    LET gone == CompletedBeforeToday(coll, store_id, today_str)
    IN  IF gone = {} THEN [coll |-> coll, deleted_count |-> 0]
        ELSE [coll |-> Without(coll, {CHOOSE k \in gone : TRUE}), deleted_count |-> 1]

\* auto_cleanup_completed_orders(db, store_id): the collection it leaves and
\* the deleted_count it returns.
auto_cleanup_completed_orders(coll, store_id, today_str) ==
    LET gone == CompletedBeforeToday(coll, store_id, today_str)
    IN  [coll |-> Without(coll, gone), deleted_count |-> Cardinality(gone)]

SalesUpToCutoff(coll, store_id, cutoff_date) ==
    { k \in DOMAIN coll : k[1] = store_id /\ (StrLess(k[2], cutoff_date) \/ k[2] = cutoff_date) }

\* The aggregates auto_cleanup_old_daily_sales deletes: sale_date < cutoff_date.
SalesBeforeCutoff(coll, store_id, cutoff_date) ==
    { k \in DOMAIN coll : k[1] = store_id /\ StrLess(k[2], cutoff_date) }

\* auto_cleanup_old_daily_sales(db, store_id): the collection it leaves and
\* the deleted_count it returns.
auto_cleanup_old_daily_sales(coll, store_id, cutoff_date) ==
    LET gone == SalesBeforeCutoff(coll, store_id, cutoff_date)
    IN  [coll |-> Without(coll, gone), deleted_count |-> Cardinality(gone)]

\* (datetime.now() - timedelta(days=400)).strftime("%Y-%m-%d")
CutoffDate(day) == DateStr(day - RetentionDays)

\* The order documents there can be on a day: save_order wrote them on that
\* day or an earlier one, update_order_status may have moved them on.
OrderDocsUpTo(day) ==
    UNION { LET k == <<"cafe1", "a1b2c3d4">>
                saved == save_order(<<>>, k[1], k[2], order_data, Timestamp(d))
            IN  {saved[k]} \cup
                { update_order_status(saved, k[1], k[2], new_status)[k] :
                    new_status \in {"preparing", "completed"} } :
            order_data \in {CHOOSE x \in OrderDatas : TRUE},
            d \in {x \in Days : x <= day} }

\* The aggregate add_to_daily_sales leaves of one order on the day of key k.
SalesDocOf(k) ==
    add_to_daily_sales(<<>>, k[1], SalesDocRead(<<>>, k[1], k[2]), 5)[k]

\* The documents there may be when a cleanup runs: two orders of one store
\* and one of another, an aggregate of each day of one store and an old one of
\* another.
CleanupOrderKeys == (OpsStores \X OrderTokens) \ {<<"cafe2", "e5f6a7b8">>}
CleanupSalesKeys ==
    { k \in OpsStores \X {DateStr(d) : d \in Days} :
        k[1] = "cafe1" \/ k[2] = DateStr(FirstDay) }

\* The databases a cleanup can find.
InitCleanup ==
    /\ stores = OpsStores
    /\ menu = <<>>
    /\ today \in Days
    /\ orders \in UNION { [K -> OrderDocsUpTo(today)] :
                            K \in { S \in SUBSET CleanupOrderKeys :
                                      Cardinality(S) <= MaxLiveOrders } }
    /\ daily \in { [k \in K |-> SalesDocOf(k)] :
                     K \in SUBSET { x \in CleanupSalesKeys : DayOf(x[2]) <= today } }
    /\ pc = [s \in Sessions |-> "idle"]
    /\ order = [s \in Sessions |-> NoOrder]
    /\ menu_items = [s \in Sessions |-> <<>>]
    /\ checked = [s \in Sessions |-> <<>>]
    /\ sales_doc = [s \in Sessions |-> NoSalesDoc]
    /\ wrote = [s \in Sessions |-> FALSE]
    /\ booked = [k \in Stores \X OrderIds |-> 0]
    /\ failures = 0
    /\ args = None
    /\ returned = None
    /\ ledger = <<>>
    /\ written = <<>>
    /\ InitPages

\* What a call records: itself, its day, and, when the call before it was the
\* same call on the same day, what that one returned.
CleanupCall(fn, store_id) ==
    [fn |-> fn, store_id |-> store_id, day |-> today,
     previous |-> IF args # None /\ TheValue(args).fn = fn
                     /\ TheValue(args).store_id = store_id
                     /\ TheValue(args).day = today
                  THEN returned ELSE None]

\* One whole call of auto_cleanup_completed_orders(db, store_id).
AutoCleanupCompletedOrders(store_id) ==
    LET result == auto_cleanup_completed_orders(orders, store_id, DateStr(today))
    IN  /\ orders' = result.coll
        /\ returned' = Some([deleted_count |-> result.deleted_count])
        /\ args' = Some(CleanupCall("auto_cleanup_completed_orders", store_id))
        /\ UNCHANGED <<stores, menu, daily, today, locals, booked, failures,
                       ledger, written>>
        /\ UNCHANGED pages

\* One whole call of auto_cleanup_old_daily_sales(db, store_id).
AutoCleanupOldDailySales(store_id) ==
    LET result == auto_cleanup_old_daily_sales(daily, store_id, CutoffDate(today))
    IN  /\ daily' = result.coll
        /\ returned' = Some([deleted_count |-> result.deleted_count])
        /\ args' = Some(CleanupCall("auto_cleanup_old_daily_sales", store_id))
        /\ UNCHANGED <<stores, menu, orders, today, locals, booked, failures,
                       ledger, written>>
        /\ UNCHANGED pages

NextCleanup ==
    \/ \E store_id \in OpsStores : AutoCleanupCompletedOrders(store_id)
    \/ \E store_id \in OpsStores : AutoCleanupOldDailySales(store_id)
    \/ NextDay

SpecCleanup == InitCleanup /\ [][NextCleanup]_vars

\* ------------------------------------------------ the deletions of orders
\* The handler of the second clear button: the completed orders of the list
\* and, with clear_all_daily_sales, every aggregate of the store.
history_clear_all(orders_coll, daily_coll, store_id, completed_orders) ==
    [orders |-> Without(orders_coll, {<<store_id, id>> : id \in completed_orders}),
     daily  |-> Without(daily_coll, {k \in DOMAIN daily_coll : k[1] = store_id})]

\* The handler of the History-clear button once confirmed: delete_order of
\* each order of completed_orders, the completed orders of the list loaded.
history_clear(orders_coll, daily_coll, store_id, completed_orders) ==
    [orders |-> Without(orders_coll, {<<store_id, id>> : id \in completed_orders}),
     daily  |-> daily_coll]

\* History clear, pressed and confirmed in a script run whose list holds a
\* completed order.
HistoryClear(store_id) ==
    LET completed_orders ==
            {o.order_id : o \in {x \in load_orders(store_id) : x.status = "completed"}}
        result == history_clear(orders, daily, store_id, completed_orders)
    IN  /\ completed_orders # {}
        /\ orders' = result.orders
        /\ daily' = result.daily
        /\ args' = Some([fn |-> "history_clear", store_id |-> store_id, day |-> today,
                         completed_orders |-> completed_orders])
        /\ returned' = None
        /\ UNCHANGED <<stores, menu, today, locals, booked, failures, ledger, written>>
        /\ UNCHANGED pages

NextPurge ==
    \/ \E store_id \in OpsStores : AutoCleanupCompletedOrders(store_id)
    \/ \E store_id \in OpsStores, order_id \in OrderTokens : DeleteOrder(store_id, order_id)
    \/ \E store_id \in OpsStores : HistoryClear(store_id)
    \/ NextDay

SpecPurge == InitCleanup /\ [][NextPurge]_vars

\* ------------------------------------- the cleanup of a dashboard load
\* The sessions start on the first day, the store with that day's aggregate
\* and with the orders of that day.
InitSession ==
    /\ InitCleanup
    /\ today = FirstDay
    /\ DOMAIN daily = {<<"cafe1", DateStr(FirstDay)>>}

\* The test of the dashboard load with cleanup_done_today is None in place
\* of cleanup_done_today != today.
cleanup_never_done(done, today_str) == done = None

\* st.session_state.cleanup_done_today != today
cleanup_due(done, today_str) == done # Some(today_str)

\* run_auto_cleanup(db, store_id): both cleanups, the second on what the
\* first has left.
run_auto_cleanup(orders_coll, daily_coll, store_id, day) ==
    LET o == auto_cleanup_completed_orders(orders_coll, store_id, DateStr(day))
        d == auto_cleanup_old_daily_sales(daily_coll, store_id, CutoffDate(day))
    IN  [orders |-> o.coll, daily |-> d.coll,
         orders_deleted |-> o.deleted_count, sales_deleted |-> d.deleted_count]

\* The ledger with one more call of run_auto_cleanup: how the calls of each
\* session on each day ended.
Ended(led, s, day, outcome) ==
    Put(led, <<s, day>>,
        (IF <<s, day>> \in DOMAIN led THEN led[<<s, day>>] ELSE {}) \cup {outcome})

\* What a dashboard load records: the session, the day, whether it has
\* called run_auto_cleanup.
LoadCall(s, invoked) ==
    Some([fn |-> "dashboard_load", session |-> s, day |-> today, invoked |-> invoked])

\* A script run of the counter dashboard in which the cleanup is due: it runs
\* and the session remembers the date.
DashboardLoadCleans(s) ==
    LET result == run_auto_cleanup(orders, daily, StoreOf(s), today)
    IN  /\ cleanup_due(cleanup_done_today[s], DateStr(today))
        /\ orders' = result.orders
        /\ daily' = result.daily
        /\ cleanup_done_today' = [cleanup_done_today EXCEPT ![s] = Some(DateStr(today))]
        /\ args' = LoadCall(s, TRUE)
        /\ returned' = Some([orders_deleted |-> result.orders_deleted,
                             sales_deleted |-> result.sales_deleted])
        /\ ledger' = Ended(ledger, s, today, "returned")
        /\ UNCHANGED <<stores, menu, today, locals, booked, failures, written,
                       categories, cat_names, session_cart>>

\* The same with a Firestore call of run_auto_cleanup that raises, in the
\* first cleanup before any delete or in the second after the first has
\* returned: the script run ends there and the date is not remembered.
DashboardLoadRaises(s) ==
    LET result == run_auto_cleanup(orders, daily, StoreOf(s), today)
    IN  /\ cleanup_due(cleanup_done_today[s], DateStr(today))
        /\ failures < MaxFailures
        /\ failures' = failures + 1
        /\ orders' \in {orders, result.orders}
        /\ args' = LoadCall(s, TRUE)
        /\ returned' = None
        /\ ledger' = Ended(ledger, s, today, "raised")
        /\ UNCHANGED <<stores, menu, daily, today, locals, booked, written, pages>>

\* A script run in which the cleanup is not due.
DashboardLoadSkips(s) ==
    /\ ~cleanup_due(cleanup_done_today[s], DateStr(today))
    /\ args' = LoadCall(s, FALSE)
    /\ returned' = None
    /\ UNCHANGED <<db, today, locals, booked, failures, ledger, written, pages>>

NextSession ==
    \/ \E s \in Sessions :
        \/ DashboardLoadCleans(s)
        \/ DashboardLoadRaises(s)
        \/ DashboardLoadSkips(s)
    \/ NextDay

SpecSession == InitSession /\ [][NextSession]_vars

\* ------------------------------------------------------ parse_price alone
\* The characters of a price text: digits of the three kinds, a letter, a
\* separator, a blank, a minus sign.
PriceChars == {"0", "5", "m2", "s2", "K", ",", " ", "-"}
MaxPriceLen == 3

InitPrice ==
    /\ stores = Stores
    /\ menu = InitialMenu
    /\ orders = <<>>
    /\ daily = <<>>
    /\ today = 1
    /\ pc = [s \in Sessions |-> "idle"]
    /\ order = [s \in Sessions |-> NoOrder]
    /\ menu_items = [s \in Sessions |-> <<>>]
    /\ checked = [s \in Sessions |-> <<>>]
    /\ sales_doc = [s \in Sessions |-> NoSalesDoc]
    /\ wrote = [s \in Sessions |-> FALSE]
    /\ booked = [k \in Stores \X OrderIds |-> 0]
    /\ failures = 0
    /\ args \in [price_str : SeqsUpTo(PriceChars, MaxPriceLen)]
    /\ returned = None
    /\ ledger = <<>>
    /\ written = <<>>
    /\ InitPages

\* parse_price is called on the text, a first time and again.
ParsePrice ==
    /\ returned' = Some([price |-> parse_price(args.price_str)])
    /\ ledger' = Append(ledger, parse_price(args.price_str))
    /\ Len(ledger) < 2
    /\ UNCHANGED <<db, today, locals, booked, failures, args, written>>
    /\ UNCHANGED pages

NextPrice == ParsePrice

SpecPrice == InitPrice /\ [][NextPrice]_vars

\* ------------------------------------------------ parse_order_items alone
\* The names a menu item can bear, as the admin forms save them (stripped,
\* otherwise unchecked): a plain name, a name that holds the quantity marker,
\* a name that holds the separator of the items string, and the empty name
\* that a text of blanks becomes.
ItemNames == { Tea, <<"T", " ", "x", "2">>, <<"A", "|", "B">>, <<>> }
MaxCartLen == 2

CartEntries == [name : ItemNames, price : {<<"2">>}, qty : 1..MaxQty]

InitItems ==
    /\ stores = Stores
    /\ menu = InitialMenu
    /\ orders = <<>>
    /\ daily = <<>>
    /\ today = 1
    /\ pc = [s \in Sessions |-> "idle"]
    /\ order = [s \in Sessions |-> NoOrder]
    /\ menu_items = [s \in Sessions |-> <<>>]
    /\ checked = [s \in Sessions |-> <<>>]
    /\ sales_doc = [s \in Sessions |-> NoSalesDoc]
    /\ wrote = [s \in Sessions |-> FALSE]
    /\ booked = [k \in Stores \X OrderIds |-> 0]
    /\ failures = 0
    /\ args \in [cart : SeqsUpTo(CartEntries, MaxCartLen)]
    /\ returned = None
    /\ ledger = <<>>
    /\ written = <<>>
    /\ InitPages

\* The (item_name, qty) of the tuples parse_order_items returns.
NamesAndQtys(parsed) == [i \in 1..Len(parsed) |-> <<parsed[i].name, parsed[i].qty>>]

\* parse_order_items is called on the items string order submission builds
\* of the cart.
ParseItemsOfCart ==
    /\ returned' = Some([of_cart |-> NamesAndQtys(parse_order_items(ItemsString(args.cart)))])
    /\ UNCHANGED <<db, today, locals, booked, failures, args, ledger, written>>
    /\ UNCHANGED pages

\* parse_order_items is called on the name of the first entry alone.
ParseNameOnly ==
    /\ Len(args.cart) > 0
    /\ returned' = Some([of_name |-> NamesAndQtys(parse_order_items(args.cart[1].name))])
    /\ UNCHANGED <<db, today, locals, booked, failures, args, ledger, written>>
    /\ UNCHANGED pages

NextItems == ParseItemsOfCart \/ ParseNameOnly

SpecItems == InitItems /\ [][NextItems]_vars

\* ------------------------------------------- the category form of the admin
\* What an admin types into the new-category field: three names, one of them
\* also with a blank before it, and a text of blanks.
CategoryTexts == { <<"D">>, <<" ", "D">>, <<"S">>, <<"M">>, <<" ">> }
\* The number of category documents there are at one time.
MaxCategories == 3

\* load_categories: the category_name of each category document of the store.
load_categories(store_id) ==
    { categories[k].category_name : k \in {x \in DOMAIN categories : x[1] = store_id} }

\* save_category: add() of a document under an identifier of its own.  The
\* created_at field, a server timestamp, is left out.
save_category(coll, store_id, category_name) ==
    LET id == CHOOSE n \in 1..(Cardinality(DOMAIN coll) + 1) : <<store_id, n>> \notin DOMAIN coll
    IN  Put(coll, <<store_id, id>>, [category_name |-> category_name])

\* A script run of an admin session starts: the sidebar loads the categories
\* of the store.
LoadCategories(s) ==
    /\ pc[s] = "idle"
    /\ pc' = [pc EXCEPT ![s] = "add_cat"]
    /\ cat_names' = [cat_names EXCEPT ![s] = load_categories(StoreOf(s))]
    /\ UNCHANGED <<db, today, order, menu_items, checked, sales_doc, wrote,
                   booked, failures, calls, categories, cleanup_done_today, session_cart>>

\* The add button of that run is found pressed with new_cat in the field: the
\* category is saved unless the text is empty once stripped or is one of the
\* names loaded.
AddCategory(s, new_cat) ==
    /\ pc[s] = "add_cat"
    /\ Cardinality(DOMAIN categories) < MaxCategories
    /\ categories' =
          IF Truthy(new_cat) /\ Truthy(Strip(new_cat)) /\ Strip(new_cat) \notin cat_names[s]
          THEN save_category(categories, StoreOf(s), Strip(new_cat))
          ELSE categories
    /\ pc' = [pc EXCEPT ![s] = "idle"]
    /\ cat_names' = [cat_names EXCEPT ![s] = {}]
    /\ UNCHANGED <<db, today, order, menu_items, checked, sales_doc, wrote,
                   booked, failures, calls, cleanup_done_today, session_cart>>

NextCategories ==
    \E s \in Sessions :
        \/ LoadCategories(s)
        \/ \E new_cat \in CategoryTexts : AddCategory(s, new_cat)

SpecCategories == Init /\ [][NextCategories]_vars

\* ------------------------------------------------- the cart of a customer
\* The menus of the store while a customer orders: two items of different
\* names, and two items of one name at different prices (the menu forms
\* compare no name with the names of the other items).
CartItemIds == {1, 2}

CartMenus ==
    { [k \in Stores \X CartItemIds |->
          IF k[2] = 1 THEN [name |-> Tea, price |-> <<"3">>]
          ELSE [name |-> Latte, price |-> <<"m2">>]],
      [k \in Stores \X CartItemIds |->
          IF k[2] = 1 THEN [name |-> Tea, price |-> <<"3">>]
          ELSE [name |-> Tea, price |-> <<"m2">>]] }

InitCart ==
    /\ stores = Stores
    /\ menu \in CartMenus
    /\ orders = <<>>
    /\ daily = <<>>
    /\ today = 1
    /\ pc = [s \in Sessions |-> "idle"]
    /\ order = [s \in Sessions |-> NoOrder]
    /\ menu_items = [s \in Sessions |-> <<>>]
    /\ checked = [s \in Sessions |-> <<>>]
    /\ sales_doc = [s \in Sessions |-> NoSalesDoc]
    /\ wrote = [s \in Sessions |-> FALSE]
    /\ booked = [k \in Stores \X OrderIds |-> 0]
    /\ failures = 0
    /\ args = None
    /\ returned = None
    /\ ledger = <<>>
    /\ written = <<>>
    /\ InitPages

\* The list without its i-th element: list.pop(i).
Pop(list, i) == [j \in 1..(Len(list) - 1) |-> IF j < i THEN list[j] ELSE list[j + 1]]

\* The ADD handler with its search of the cart left out: always appends.
add_clicked_append(cart_list, item_id, item) ==
    Append(cart_list, [item_id |-> item_id, name |-> item.name,
                       price |-> item.price, qty |-> 1])

\* The ADD handler: the first cart entry of the item's id gains one, or a new
\* entry of quantity 1 is appended.
add_clicked(cart_list, item_id, item) ==
    LET found == {i \in 1..Len(cart_list) : cart_list[i].item_id = item_id}
    IN  IF found # {}
        THEN LET i == CHOOSE i \in found : \A j \in found : i <= j
             IN  [cart_list EXCEPT ![i].qty = @ + 1]
        ELSE Append(cart_list, [item_id |-> item_id, name |-> item.name,
                                price |-> item.price, qty |-> 1])

\* The minus handler of the i-th cart entry.
minus_clicked(cart_list, i) ==
    IF cart_list[i].qty > 1 THEN [cart_list EXCEPT ![i].qty = @ - 1]
    ELSE Pop(cart_list, i)

\* The plus handler of the i-th cart entry.
plus_clicked(cart_list, i) == [cart_list EXCEPT ![i].qty = @ + 1]

\* The Cancel handler of the i-th cart entry.
del_clicked(cart_list, i) == Pop(cart_list, i)

\* The quantities stay within MaxQty and the entries within MaxCartLen.
CartInBounds(cart_list) ==
    /\ Len(cart_list) <= MaxCartLen
    /\ \A i \in 1..Len(cart_list) : cart_list[i].qty <= MaxQty

CartStep(cart_list) ==
    /\ CartInBounds(cart_list)
    /\ session_cart' = cart_list
    /\ UNCHANGED <<db, today, locals, booked, failures>>
    /\ UNCHANGED calls
    /\ UNCHANGED <<categories, cat_names, cleanup_done_today>>

AddClicked(store_id, item_id) ==
    /\ <<store_id, item_id>> \in DOMAIN menu
    /\ CartStep(add_clicked(session_cart, item_id, menu[<<store_id, item_id>>]))

MinusClicked(i) == i \in 1..Len(session_cart) /\ CartStep(minus_clicked(session_cart, i))

PlusClicked(i) == i \in 1..Len(session_cart) /\ CartStep(plus_clicked(session_cart, i))

DelClicked(i) == i \in 1..Len(session_cart) /\ CartStep(del_clicked(session_cart, i))

\* The cart section, with its buttons, is shown for a cart that is not empty.
CartClear == Len(session_cart) > 0 /\ CartStep(<<>>)

\* The order-submit handler on the cart of the session: save_order with the
\* items string and the total of the cart, then the cart is emptied.
OrderSubmit(store_id) ==
    /\ Len(session_cart) > 0
    /\ store_id \in stores
    /\ \E order_id \in OrderIds :
        /\ <<store_id, order_id>> \notin DOMAIN orders
        /\ \A other \in OrderIds :
              <<store_id, other>> \notin DOMAIN orders => order_id <= other
        /\ orders' = save_order(orders, store_id, order_id,
                                [table_no |-> <<"5">>,
                                 items    |-> ItemsString(session_cart),
                                 total    |-> PyStr(CartTotal(session_cart))],
                                today)
    /\ session_cart' = <<>>
    /\ UNCHANGED <<stores, menu, daily, today, locals, booked, failures>>
    /\ UNCHANGED calls
    /\ UNCHANGED <<categories, cat_names, cleanup_done_today>>

\* The customer's session, and the Preparing handler of the dashboard on the
\* orders it submits; no form of the admin edits the menu.
NextCart ==
    \/ \E store_id \in Stores, item_id \in CartItemIds : AddClicked(store_id, item_id)
    \/ \E i \in 1..MaxCartLen : MinusClicked(i) \/ PlusClicked(i) \/ DelClicked(i)
    \/ CartClear
    \/ \E store_id \in Stores : OrderSubmit(store_id)
    \/ \E s \in Sessions :
          \/ \E order_id \in OrderIds, boxes \in SUBSET (1..MaxCartLen) :
                ClickPreparing(s, order_id, boxes)
          \/ PrepUnavailable(s)
          \/ PrepStatus(s)

SpecCart == InitCart /\ [][NextCart]_vars

\* ------------------------------------------------------------------ claims
\* The document a handler of session s acts on.
TargetOf(s) == <<StoreOf(s), order[s].order_id>>

\* Today's aggregate as get_daily_sales reads it: (0, 0) when there is none.
SalesTotal(coll, k) == IF k \in DOMAIN coll THEN coll[k].total ELSE 0
SalesCount(coll, k) == IF k \in DOMAIN coll THEN coll[k].order_count ELSE 0

StatusRank(status) ==
    CASE status = "pending" -> 0
      [] status = "preparing" -> 1
      [] status = "completed" -> 2

\* The adjustment fields of order k in a collection: those that are stored.
AdjustmentOf(coll, k) ==
    IF k \in DOMAIN coll
    THEN [f \in DOMAIN coll[k] \cap {"unavailable_items", "adjusted_total"} |-> coll[k][f]]
    ELSE [f \in {} |-> <<>>]

\* The effective total of a stored order: adjusted_total if stored, else total.
EffectiveTotal(doc) ==
    IF "adjusted_total" \in DOMAIN doc THEN PyInt(doc.adjusted_total) ELSE PyInt(doc.total)

\* C1: the amount of an order is added to the Daily Sales Aggregate exactly
\* once: no order has add_to_daily_sales return for it a second time.
C1_BookedExactlyOnce == \A k \in DOMAIN booked : booked[k] <= 1

\* C2: the stored status of an order never moves backwards (pending, then
\* preparing, then completed).
C2_StatusMonotonic ==
    [][\A k \in DOMAIN orders \cap DOMAIN orders' :
            StatusRank(orders'[k].status) >= StatusRank(orders[k].status)]_vars

\* C3: no increment is lost: each add_to_daily_sales that returns leaves the
\* day's order_count one higher and its total higher by the amount than
\* they were when it wrote, whatever other calls wrote since it read.
C3_NoLostIncrement ==
    [][\A s \in Sessions :
            DoneSalesWrite(s) =>
                LET k == <<StoreOf(s), sales_doc[s].day>>
                IN  /\ SalesCount(daily', k) = SalesCount(daily, k) + 1
                    /\ SalesTotal(daily', k) = SalesTotal(daily, k) + OrderTotal(order[s])]_vars

\* The sum of price x qty over (name, qty) pairs, priced by a menu list.
RECURSIVE PriceTimesQty(_, _)
PriceTimesQty(menu_list, pairs) ==
    IF Len(pairs) = 0 THEN 0
    ELSE NameToPrice(menu_list, pairs[1].name) * pairs[1].qty
            + PriceTimesQty(menu_list, Tail(pairs))

\* The lines of an order whose item is named in its unavailable_items.
NamedUnavailable(doc) ==
    LET parsed == parse_order_items(doc.items)
    IN  CheckedPairs(parsed, {i \in 1..Len(parsed) : parsed[i].name \in UnavSet(doc)}, 1)

DistinctNames(doc) ==
    LET parsed == parse_order_items(doc.items)
    IN  \A i, j \in 1..Len(parsed) : parsed[i].name = parsed[j].name => i = j

C5_BooksStoredEffectiveTotal ==
    [][\A s \in Sessions :
            (DoneSalesWrite(s) /\ TargetOf(s) \in DOMAIN orders) =>
                OrderTotal(order[s]) = EffectiveTotal(orders[TargetOf(s)])]_vars

\* C6: once the stored status of an order is preparing or completed, no step
\* changes its unavailable_items or its adjusted_total.
C6_AdjustmentOnlyWhilePending ==
    [][\A k \in DOMAIN orders \cap DOMAIN orders' :
            orders[k].status \in {"preparing", "completed"} =>
                AdjustmentOf(orders', k) = AdjustmentOf(orders, k)]_vars

\* C7: when delete_store(store) has run, no menu item, order or Daily Sales
\* Aggregate of that store is left in the database.
C7_DeleteStoreLeavesNothing ==
    [][\A store_id \in Stores :
            DeleteStore(store_id) =>
                \A k \in DOMAIN menu' \cup DOMAIN orders' \cup DOMAIN daily' :
                    k[1] # store_id]_vars

\* C8: a handler in which a persistence call fails leaves the database as it
\* found it: a handler that ends with the exception has written nothing, and
\* Mark Completed writes no status after its aggregate update has failed.
C8_FailureLeavesPriorState ==
    [][\A s \in Sessions :
            /\ (PrepUnavailableRaises(s) \/ PrepStatusRaises(s) \/ DoneStatusRaises(s))
                    => ~wrote[s]
            /\ DoneStatus(s) => wrote[s]]_vars

\* C9: an order is completed only if add_to_daily_sales has succeeded for it.
C9_CompletedOnlyIfBooked ==
    \A k \in DOMAIN orders : orders[k].status = "completed" => booked[k] >= 1

\* C10: Mark Preparing with no box checked sets unavailable_items to the
\* empty string and writes no adjusted_total.
C10_NoShortageNoAdjustedTotal ==
    [][\A s \in Sessions :
            (PrepUnavailable(s) /\ Len(checked[s]) = 0) =>
                /\ orders'[TargetOf(s)].unavailable_items = <<>>
                /\ "adjusted_total" \in DOMAIN orders'[TargetOf(s)] =>
                        /\ "adjusted_total" \in DOMAIN orders[TargetOf(s)]
                        /\ orders'[TargetOf(s)].adjusted_total
                                = orders[TargetOf(s)].adjusted_total]_vars

\* C11: compute_adjusted_total returns subtracted = the sum of price x qty
\* over the pairs, adjusted >= 0, adjusted = original_total - subtracted when
\* subtracted <= original_total, and adjusted = 0 otherwise.
C11_AdjustedAndSubtracted ==
    returned # None =>
        LET r == TheValue(returned)
        IN  /\ r.subtracted = PriceTimesQty(args.menu_items, args.unavailable)
            /\ r.adjusted >= 0
            /\ r.subtracted <= args.order_total_int =>
                    r.adjusted = args.order_total_int - r.subtracted
            /\ r.subtracted > args.order_total_int => r.adjusted = 0

\* C11's case: more is subtracted than a positive total holds.
C11_Witness ==
    /\ returned # None
    /\ args.order_total_int > 0
    /\ TheValue(returned).subtracted > args.order_total_int
    /\ TheValue(returned).adjusted = 0

\* C12: one more unavailable pair of positive menu price and qty >= 1 never
\* makes the adjusted total returned larger.
C12_OneMorePairNeverIncreases ==
    [][\A pair \in AdjustPairs :
            (/\ ComputeWithOneMore(pair)
             /\ NameToPrice(args.menu_items, pair.name) > 0
             /\ pair.qty >= 1) =>
                TheValue(returned').adjusted <= TheValue(returned).adjusted]_vars

\* C12's case: a pair of positive price and quantity was added to a list of
\* full length and the adjusted total is still above 0.
C12_Witness ==
    /\ returned # None
    /\ Len(args.unavailable) = MaxPairs + 1
    /\ NameToPrice(args.menu_items, args.unavailable[MaxPairs + 1].name) > 0
    /\ args.unavailable[MaxPairs + 1].qty >= 1
    /\ TheValue(returned).adjusted > 0

\* C13: add_to_daily_sales creates the day's aggregate with total = amount
\* and order_count = 1 when there is none and otherwise adds amount and 1; after
\* n calls that do not overlap the aggregate holds order_count = n and total =
\* the sum of the amounts; no aggregate of another day or store changes.
C13_AggregateOfCalls ==
    [][\A store_id \in OpsStores, amount \in SalesAmounts :
            AddToDailySales(store_id, amount) =>
                LET k == <<store_id, DateStr(today)>>
                IN  /\ k \notin DOMAIN daily =>
                            daily'[k].total = amount /\ daily'[k].order_count = 1
                    /\ k \in DOMAIN daily =>
                            /\ daily'[k].total = daily[k].total + amount
                            /\ daily'[k].order_count = daily[k].order_count + 1
                    /\ SalesCount(daily', k) = Len(ledger'[k])
                    /\ SalesTotal(daily', k) = SeqSum(ledger'[k])
                    /\ DOMAIN daily' = DOMAIN daily \cup {k}
                    /\ \A x \in DOMAIN daily \ {k} : daily'[x] = daily[x]]_vars

\* C13's case: two calls on one day for one store, with an aggregate of
\* another store or day beside it.
C13_Witness ==
    \E k \in DOMAIN daily :
        /\ ledger[k] = <<5, 6>>
        /\ daily[k].order_count = 2
        /\ daily[k].total = 11
        /\ \E x \in DOMAIN daily : x # k

\* C14: save_order stores a pending order with the table number, the items
\* string and the total as supplied and with no unavailable_items and no
\* adjusted_total; no order under another identifier and no Daily Sales
\* Aggregate changes.
C14_SaveOrderStoresAsSupplied ==
    [][\A store_id \in OpsStores, order_id \in OrderTokens, order_data \in OrderDatas :
            SaveOrder(store_id, order_id, order_data) =>
                LET k == <<store_id, order_id>>
                IN  /\ orders'[k].status = "pending"
                    /\ orders'[k].table_no = order_data.table_no
                    /\ orders'[k].items = order_data.items
                    /\ orders'[k].total = order_data.total
                    /\ "unavailable_items" \notin DOMAIN orders'[k]
                    /\ "adjusted_total" \notin DOMAIN orders'[k]
                    /\ DOMAIN orders' = DOMAIN orders \cup {k}
                    /\ \A x \in DOMAIN orders \ {k} : orders'[x] = orders[x]
                    /\ daily' = daily]_vars

\* C14's case: a pending order whose total is the client's 999 for one Tea,
\* beside an order of the same store that has been adjusted, and an aggregate.
C14_Witness ==
    /\ returned # None
    /\ DOMAIN TheValue(returned) = {"order_id"}
    /\ \E k, x \in DOMAIN orders :
            /\ k[1] = x[1]
            /\ k[2] = TheValue(returned).order_id
            /\ x # k
            /\ orders[k].status = "pending"
            /\ orders[k].total = <<"9", "9", "9">>
            /\ "adjusted_total" \in DOMAIN orders[x]
    /\ DOMAIN daily # {}

\* C15: save_order never assigns an identifier that an order of the store
\* already has.
C15_FreshIdentifier ==
    [][\A store_id \in OpsStores, order_id \in OrderTokens, order_data \in OrderDatas :
            SaveOrder(store_id, order_id, order_data) =>
                <<store_id, order_id>> \notin DOMAIN orders]_vars

\* C19: get_order_doc and get_order_status change nothing and return what the
\* last write to the order wrote (its status, its unavailable_items and its
\* adjusted_total), or None when there is no such order.
C19_ReadsLatestWrite ==
    [][\A store_id \in OpsStores, order_id \in OrderTokens :
            LET k == <<store_id, order_id>>
                adjustment == {"unavailable_items", "adjusted_total"}
            IN  /\ GetOrderDoc(store_id, order_id) =>
                    /\ db' = db
                    /\ LET doc == TheValue(returned').order_doc
                       IN  IF k \in DOMAIN written
                           THEN /\ doc # None
                                /\ TheValue(doc).status = written[k].status
                                /\ DOMAIN TheValue(doc) \cap adjustment
                                        = DOMAIN written[k] \cap adjustment
                                /\ \A f \in DOMAIN written[k] \cap adjustment :
                                        TheValue(doc)[f] = written[k][f]
                           ELSE doc = None
                /\ GetOrderStatus(store_id, order_id) =>
                    /\ db' = db
                    /\ TheValue(returned').status =
                            IF k \in DOMAIN written THEN Some(written[k].status) ELSE None]_vars

\* C19's case: an order read back after its status and its adjustment were
\* written, and a read of an order that was deleted.
C19_Witness ==
    /\ returned # None
    /\ DOMAIN TheValue(returned) = {"order_doc"}
    /\ TheValue(returned).order_doc # None
    /\ TheValue(TheValue(returned).order_doc).status = "completed"
    /\ "adjusted_total" \in DOMAIN TheValue(TheValue(returned).order_doc)

\* C16: auto_cleanup_completed_orders deletes exactly the store's completed
\* orders whose timestamp does not start with today's date and returns their
\* number; every other order, the other stores' orders and the aggregates
\* stay as they were.
C16_DeletesCompletedOfEarlierDays ==
    [][\A store_id \in OpsStores :
         AutoCleanupCompletedOrders(store_id) =>
            LET gone == { k \in DOMAIN orders :
                            /\ k[1] = store_id
                            /\ orders[k].status = "completed"
                            /\ \E d \in Days : d # today /\ orders[k].timestamp = Timestamp(d) }
            IN  /\ DOMAIN orders' = DOMAIN orders \ gone
                /\ \A k \in DOMAIN orders' : orders'[k] = orders[k]
                /\ returned' = Some([deleted_count |-> Cardinality(gone)])
                /\ daily' = daily /\ menu' = menu /\ stores' = stores]_vars

\* A cleanup has deleted an order and kept a completed order of today of the
\* same store.
C16_Witness ==
    /\ args # None
    /\ "fn" \in DOMAIN TheValue(args)
    /\ TheValue(args).fn = "auto_cleanup_completed_orders"
    /\ returned = Some([deleted_count |-> 1])
    /\ \E k \in DOMAIN orders :
          /\ k[1] = TheValue(args).store_id
          /\ orders[k].status = "completed"
          /\ orders[k].timestamp = Timestamp(today)

\* C18: auto_cleanup_old_daily_sales deletes exactly the store's aggregates
\* whose date is earlier than the cutoff date, RetentionDays before today, and
\* returns their number; the aggregates of the cutoff date and later, today's
\* among them, the other stores' aggregates and all orders stay as they were.
C18_DeletesSalesBeforeCutoff ==
    [][\A store_id \in OpsStores :
         AutoCleanupOldDailySales(store_id) =>
            LET gone == { k \in DOMAIN daily :
                            k[1] = store_id /\ DayOf(k[2]) < today - RetentionDays }
            IN  /\ DOMAIN daily' = DOMAIN daily \ gone
                /\ \A k \in DOMAIN daily' : daily'[k] = daily[k]
                /\ <<store_id, DateStr(today)>> \in DOMAIN daily
                      => <<store_id, DateStr(today)>> \in DOMAIN daily'
                /\ returned' = Some([deleted_count |-> Cardinality(gone)])
                /\ orders' = orders /\ menu' = menu /\ stores' = stores]_vars

\* A cleanup has deleted an aggregate and kept today's, with an order there.
C18_Witness ==
    /\ args # None
    /\ "fn" \in DOMAIN TheValue(args)
    /\ TheValue(args).fn = "auto_cleanup_old_daily_sales"
    /\ TheValue(args).day = today
    /\ returned = Some([deleted_count |-> 1])
    /\ <<TheValue(args).store_id, DateStr(today)>> \in DOMAIN daily
    /\ orders # <<>>

\* The call before this one was the same cleanup of the same store on the
\* same day.
SameCallBefore(fn, store_id) ==
    /\ args # None
    /\ TheValue(args).fn = fn
    /\ TheValue(args).store_id = store_id
    /\ TheValue(args).day = today

\* C17: a cleanup run right after the same cleanup of the same store, on the
\* same day and with no other operation between, returns 0 and leaves the
\* database unchanged; so for auto_cleanup_completed_orders and for
\* auto_cleanup_old_daily_sales.
C17_SecondRunDeletesNothing ==
    [][\A store_id \in OpsStores :
         /\ (AutoCleanupCompletedOrders(store_id)
             /\ SameCallBefore("auto_cleanup_completed_orders", store_id))
                => returned' = Some([deleted_count |-> 0]) /\ db' = db
         /\ (AutoCleanupOldDailySales(store_id)
             /\ SameCallBefore("auto_cleanup_old_daily_sales", store_id))
                => returned' = Some([deleted_count |-> 0]) /\ db' = db]_vars

\* A second run in a row has returned 0 after a first run that deleted two
\* orders.
C17_Witness ==
    /\ args # None
    /\ "previous" \in DOMAIN TheValue(args)
    /\ TheValue(args).fn = "auto_cleanup_completed_orders"
    /\ TheValue(args).previous = Some([deleted_count |-> 2])
    /\ returned = Some([deleted_count |-> 0])

\* The order is stored with every ordered item taken off: adjusted_total 0.
StoredAdjustedZero(k) ==
    /\ k \in DOMAIN orders
    /\ "adjusted_total" \in DOMAIN orders[k]
    /\ orders[k].adjusted_total = <<"0">>

\* C20: Mark Completed of an order stored with adjusted_total 0 adds 0 to the
\* total of the day's aggregate and 1 to its order_count, and sets the status
\* to completed after having done so.
C20_AllUnavailableBooksZero ==
    [][\A s \in Sessions :
         LET k == TargetOf(s)
             d == <<StoreOf(s), today>>
         IN  /\ (DoneSalesWrite(s) /\ StoredAdjustedZero(k)) =>
                    /\ SalesTotal(daily', d) = SalesTotal(daily, d)
                    /\ SalesCount(daily', d) = SalesCount(daily, d) + 1
             /\ (DoneStatus(s) /\ StoredAdjustedZero(k)) =>
                    /\ orders'[k].status = "completed"
                    /\ wrote[s]]_vars

\* Whether the menu list has an item of that name.
InMenu(menu_list, name) ==
    \E i \in 1..Len(menu_list) : Strip(menu_list[i].name) = Strip(name)

RECURSIVE PairsInMenu(_, _)
PairsInMenu(menu_list, pairs) ==
    IF Len(pairs) = 0 THEN <<>>
    ELSE (IF InMenu(menu_list, pairs[1].name) THEN <<pairs[1]>> ELSE <<>>)
            \o PairsInMenu(menu_list, Tail(pairs))

\* C21: compute_adjusted_total returns when an unavailable item is not named
\* in the menu list; such an item adds 0 to the subtracted amount, which is
\* the sum of price x qty over the other items.
C21_MissingItemSubtractsNothing ==
    /\ returned # None =>
            TheValue(returned).subtracted
                = PriceTimesQty(args.menu_items, PairsInMenu(args.menu_items, args.unavailable))
    /\ \A i \in 1..Len(args.unavailable) :
            ~InMenu(args.menu_items, args.unavailable[i].name) =>
                NameToPrice(args.menu_items, args.unavailable[i].name) = 0

\* C21's case: of two unavailable items with a quantity, one is on the menu
\* at a price and one is not on the menu.
C21_Witness ==
    /\ returned # None
    /\ TheValue(returned).subtracted > 0
    /\ \E i, j \in 1..Len(args.unavailable) :
          /\ args.unavailable[i].qty >= 1
          /\ args.unavailable[j].qty >= 1
          /\ ~InMenu(args.menu_items, args.unavailable[i].name)
          /\ InMenu(args.menu_items, args.unavailable[j].name)
    /\ Len(args.menu_items) > 0

\* The number the claim describes: Myanmar digits mapped, every character
\* that is no ASCII digit then dropped, the rest read in base 10, 0 when
\* nothing is left.
RECURSIVE Base10(_)
Base10(ds) ==
    IF Len(ds) = 0 THEN 0
    ELSE 10 * Base10(SubSeq(ds, 1, Len(ds) - 1))
            + (CHOOSE v \in 0..9 : Digits[v + 1] = ds[Len(ds)])

DigitsKept(price_str) ==
    SelectSeq([i \in 1..Len(price_str) |->
                    IF \E v \in 1..10 : MyanmarDigits[v] = price_str[i]
                    THEN Digits[CHOOSE v \in 1..10 : MyanmarDigits[v] = price_str[i]]
                    ELSE price_str[i]],
              LAMBDA c : c \in Range(Digits))

\* C22 as stated: parse_price returns the base-10 number of the digits left
\* once the Myanmar digits are mapped and the non-digits dropped, 0 when no
\* digit is left.
C22_ParsePriceReadsDigits ==
    returned # None =>
        TheValue(returned).price = Base10(DigitsKept(args.price_str))

\* C22: parse_price returns a non-negative integer, the same at every call:
\* 0 when the text holds a character str.isdigit accepts and int() rejects
\* (a superscript digit), and otherwise the base-10 number of the digits left
\* once the Myanmar digits are mapped and the non-digits dropped, 0 when no
\* digit is left.
C22_ParsePriceTotal ==
    /\ returned # None =>
        /\ TheValue(returned).price \in Nat
        /\ TheValue(returned).price =
              IF \E i \in 1..Len(args.price_str) :
                    args.price_str[i] \in Range(SuperscriptDigits)
              THEN 0
              ELSE Base10(DigitsKept(args.price_str))
    /\ \A i \in 1..Len(ledger) : ledger[i] = ledger[1]

\* C22's case: a text of a Myanmar digit, a letter and an ASCII digit was
\* parsed twice.
C22_Witness ==
    /\ returned = Some([price |-> 25])
    /\ "price_str" \in DOMAIN args
    /\ args.price_str = <<"m2", "K", "5">>
    /\ Len(ledger) = 2

\* C23: parse_order_items of the items string built of a cart returns the
\* (name, qty) pairs of the cart in their order, and of a name without the
\* quantity marker returns that name with quantity 1.
C23_ItemsRoundTrip ==
    returned # None =>
        LET r == TheValue(returned)
        IN  /\ "of_cart" \in DOMAIN r =>
                  r.of_cart = [i \in 1..Len(args.cart) |->
                                  <<args.cart[i].name, args.cart[i].qty>>]
            /\ ("of_name" \in DOMAIN r
                /\ ~Contains(args.cart[1].name, <<" ", "x">>)) =>
                  r.of_name = << <<args.cart[1].name, 1>> >>

\* C25 as stated: the stored status of an order becomes completed only from
\* preparing, never directly from pending.
C25_CompletedOnlyFromPreparing ==
    [][\A k \in DOMAIN orders \cap DOMAIN orders' :
            (orders'[k].status = "completed" /\ orders[k].status # "completed") =>
                orders[k].status = "preparing"]_vars

\* C25: the stored status of an order becomes completed only by the last
\* write of a Mark Completed handler, pressed on an order its session's list
\* showed as pending or as preparing; Mark Preparing never completes one.
C25_CompletedOnlyByMarkCompleted ==
    [][\A k \in DOMAIN orders \cap DOMAIN orders' :
            (orders'[k].status = "completed" /\ orders[k].status # "completed") =>
                \E s \in Sessions :
                    /\ DoneStatus(s)
                    /\ k = TargetOf(s)
                    /\ order[s].status \in {"pending", "preparing"}]_vars

\* An order was completed that never was preparing: no Mark Preparing has
\* written to it.
C25_Witness ==
    \E k \in DOMAIN orders :
        /\ orders[k].status = "completed"
        /\ "unavailable_items" \notin DOMAIN orders[k]
        /\ booked[k] = 1
        /\ \A s \in Sessions : pc[s] = "idle"

\* C24: no two categories of a store bear the same name.
C24_CategoryNamesUnique ==
    \A k1, k2 \in DOMAIN categories :
        (k1[1] = k2[1] /\ categories[k1].category_name = categories[k2].category_name)
            => k1 = k2

\* C26: a step that deletes order documents (auto_cleanup_completed_orders,
\* delete_order, History clear) leaves every Daily Sales Aggregate as it was.
C26_PurgeKeepsAggregates ==
    [][(DOMAIN orders \ DOMAIN orders' # {}) => daily' = daily]_vars

\* History clear has deleted two completed orders of a store whose aggregate
\* of the day is there.
C26_Witness ==
    /\ args # None
    /\ "completed_orders" \in DOMAIN TheValue(args)
    /\ Cardinality(TheValue(args).completed_orders) = 2
    /\ <<TheValue(args).store_id, DateStr(today)>> \in DOMAIN daily
    /\ \A k \in DOMAIN orders : k[1] # TheValue(args).store_id

\* run_auto_cleanup has returned in session s on the current date.
HasRunToday(s) ==
    <<s, today>> \in DOMAIN ledger /\ "returned" \in ledger[<<s, today>>]

C28_ActiveOrdersNeverDeleted ==
    [][\A k \in DOMAIN orders \ DOMAIN orders' : orders[k].status = "completed"]_vars


\* C29: with the menu left as it was at submission, the Preparing handler of
\* an order whose every item is checked unavailable stores adjusted_total 0.
C29_AllUnavailableAdjustsToZero ==
    [][\A s \in Sessions :
         (/\ PrepUnavailable(s)
          /\ Len(checked[s]) = Len(parse_order_items(order[s].items)))
            => orders'[TargetOf(s)].adjusted_total = <<"0">>]_vars

\* Each entry of the cart has a quantity of 1 or more, and no two entries
\* have the same item_id.
CartWellFormed(cart_list) ==
    /\ \A i \in 1..Len(cart_list) : cart_list[i].qty >= 1
    /\ \A i, j \in 1..Len(cart_list) :
          cart_list[i].item_id = cart_list[j].item_id => i = j

\* C30: in every state of a customer session each cart entry has a quantity
\* of at least 1 and no two cart entries share an item_id.
C30_CartWellFormed == CartWellFormed(session_cart)

\* A cart of two entries after an order was submitted, the first entry with
\* a quantity above 1.
C30_Witness ==
    /\ Len(session_cart) = 2
    /\ session_cart[1].qty > 1
    /\ orders # <<>>

====
